---------------------------- MODULE Spec2Model ----------------------------
(***************************************************************************)
(* Model of the zipf module of drmingdrmer/load: the validating            *)
(* constructor Zipf::new, the two inverse-CDF regimes (ZipfOne, ZipfNonOne)*)
(* behind ZipfImpl, sample / sample_batch, the sequence adapter            *)
(* ZipfIterator and the derived adapters indices_access / array_access.    *)
(*                                                                         *)
(* f64 is modelled as a reduced-width binary format: a finite value is an  *)
(* integer multiple of 1/Scale of magnitude at most MaxV/Scale, and there  *)
(* are the non-finite values NaN, +Inf and -Inf.  Every arithmetic         *)
(* operation returns the exact result rounded to the nearest representable *)
(* value (ties to even), overflows to an infinity and underflows to zero,  *)
(* and treats NaN and the infinities as IEEE-754 does.  The sign of zero   *)
(* is not modelled: no operation of the program divides by a zero.         *)
(***************************************************************************)
EXTENDS Integers, Sequences, FiniteSets, TLC

Adapters == {1, 2}

VARIABLES
    call,       \* the last call made: its name and arguments
    ret,        \* what that call returned
    handle,     \* the handle the caller holds, if any
    batch_u,    \* the input slice of the last sample_batch
    batch_out,  \* the output slice of the last sample_batch
    panicked,   \* the thread has panicked
    iters,      \* the two sequence adapters, if constructed
    outs,       \* the values pulled from each adapter since its construction
    origin,     \* the state of each adapter's source at its construction
    acc         \* the derived adapter (indices_access / array_access), if any

vars ==
    <<call, ret, handle, batch_u, batch_out, panicked, iters, outs, origin, acc>>

\* ------------------------------------------------------------------ f64

\* Number of representable steps per unit: a finite f64 is v/Scale.
Scale == 16
\* Largest finite magnitude, in steps (16.0); beyond it a result is infinite.
MaxV == 256
\* usize::MAX of the model, the value a cast of +Inf saturates to.
UsizeMax == 65535

F(n) == [k |-> "fin", v |-> n]
NaN == [k |-> "nan", v |-> 0]
PInf == [k |-> "inf", v |-> 1]
NInf == [k |-> "inf", v |-> -1]

IsNaN(x) == x.k = "nan"
IsInf(x) == x.k = "inf"
IsFin(x) == x.k = "fin"
IsZero(x) == x.k = "fin" /\ x.v = 0

\* Sign of a non-NaN value: -1, 0 or 1.
Sgn(x) == IF x.v > 0 THEN 1 ELSE IF x.v < 0 THEN -1 ELSE 0

Inf(sign) == IF sign < 0 THEN NInf ELSE PInf

\* A finite exact result n (in steps), overflowing to an infinity.
Fin(n) == IF n > MaxV THEN PInf ELSE IF n < -MaxV THEN NInf ELSE F(n)

\* Position of a non-NaN value in the total order of the extended reals.
Ord(x) == IF IsInf(x) THEN x.v * (MaxV + 1) ELSE x.v

\* The f64 comparison operators: every comparison with NaN is false.
Le(x, y) == ~IsNaN(x) /\ ~IsNaN(y) /\ Ord(x) <= Ord(y)
Lt(x, y) == ~IsNaN(x) /\ ~IsNaN(y) /\ Ord(x) < Ord(y)
Gt(x, y) == Lt(y, x)
EqF(x, y) == ~IsNaN(x) /\ ~IsNaN(y) /\ Ord(x) = Ord(y)

Abs(n) == IF n < 0 THEN -n ELSE n

\* n/d for d > 0, rounded to the nearest integer, ties to even.
RoundDiv(n, d) ==
    LET q == n \div d
        r == n % d
    IN  IF 2 * r < d THEN q
        ELSE IF 2 * r > d THEN q + 1
        ELSE IF q % 2 = 0 THEN q ELSE q + 1

\* n/d for any d # 0, rounded to nearest.
RoundQuot(n, d) == IF d > 0 THEN RoundDiv(n, d) ELSE RoundDiv(-n, -d)

RECURSIVE IPow(_, _)
IPow(b, e) == IF e = 0 THEN 1 ELSE b * IPow(b, e - 1)

\* sqrt(n/d) for n >= 0, d > 0, rounded to the nearest integer.
RoundSqrt(n, d) ==
    LET r == CHOOSE x \in 0..(4 * Scale) :
                 /\ x * x * d <= n
                 /\ (x = 4 * Scale \/ (x + 1) * (x + 1) * d > n)
    IN  IF (2 * r + 1) * (2 * r + 1) * d <= 4 * n THEN r + 1 ELSE r

Neg(x) == IF IsNaN(x) THEN NaN ELSE IF IsInf(x) THEN Inf(-x.v) ELSE F(-x.v)

Add(x, y) ==
    IF IsNaN(x) \/ IsNaN(y) THEN NaN
    ELSE IF IsInf(x) /\ IsInf(y) THEN (IF x.v = y.v THEN x ELSE NaN)
    ELSE IF IsInf(x) THEN x
    ELSE IF IsInf(y) THEN y
    ELSE Fin(x.v + y.v)

Sub(x, y) == Add(x, Neg(y))

Mul(x, y) ==
    IF IsNaN(x) \/ IsNaN(y) THEN NaN
    ELSE IF IsInf(x) \/ IsInf(y)
         THEN (IF IsZero(x) \/ IsZero(y) THEN NaN ELSE Inf(Sgn(x) * Sgn(y)))
    ELSE Fin(RoundDiv(x.v * y.v, Scale))

Div(x, y) ==
    IF IsNaN(x) \/ IsNaN(y) THEN NaN
    ELSE IF IsInf(x) THEN (IF IsInf(y) THEN NaN
                           ELSE Inf(x.v * (IF y.v < 0 THEN -1 ELSE 1)))
    ELSE IF IsInf(y) THEN F(0)
    ELSE IF y.v = 0 THEN (IF x.v = 0 THEN NaN ELSE Inf(Sgn(x)))
    ELSE Fin(RoundQuot(x.v * Scale, y.v))

\* f64::mul_add(u, m, c): u*m + c with a single rounding.
MulAdd(u, m, c) ==
    IF IsNaN(u) \/ IsNaN(m) \/ IsNaN(c) THEN NaN
    ELSE IF IsInf(u) \/ IsInf(m)
         THEN (IF IsZero(u) \/ IsZero(m) THEN NaN
               ELSE IF IsInf(c) /\ c.v # Sgn(u) * Sgn(m) THEN NaN
               ELSE Inf(Sgn(u) * Sgn(m)))
    ELSE IF IsInf(c) THEN c
    ELSE Fin(RoundDiv(u.v * m.v + c.v * Scale, Scale))

\* Scale * ln(v/Scale) for v = 1 .. MaxV, rounded to nearest.
LnTable == <<
     -44, -33, -27, -22, -19, -16, -13, -11, -9, -8, -6, -5, -3, -2, -1, 0,
     1, 2, 3, 4, 4, 5, 6, 6, 7, 8, 8, 9, 10, 10, 11, 11,
     12, 12, 13, 13, 13, 14, 14, 15, 15, 15, 16, 16, 17, 17, 17, 18,
     18, 18, 19, 19, 19, 19, 20, 20, 20, 21, 21, 21, 21, 22, 22, 22,
     22, 23, 23, 23, 23, 24, 24, 24, 24, 25, 25, 25, 25, 25, 26, 26,
     26, 26, 26, 27, 27, 27, 27, 27, 27, 28, 28, 28, 28, 28, 29, 29,
     29, 29, 29, 29, 29, 30, 30, 30, 30, 30, 30, 31, 31, 31, 31, 31,
     31, 31, 32, 32, 32, 32, 32, 32, 32, 33, 33, 33, 33, 33, 33, 33,
     33, 34, 34, 34, 34, 34, 34, 34, 34, 34, 35, 35, 35, 35, 35, 35,
     35, 35, 35, 36, 36, 36, 36, 36, 36, 36, 36, 36, 37, 37, 37, 37,
     37, 37, 37, 37, 37, 37, 38, 38, 38, 38, 38, 38, 38, 38, 38, 38,
     38, 39, 39, 39, 39, 39, 39, 39, 39, 39, 39, 39, 40, 40, 40, 40,
     40, 40, 40, 40, 40, 40, 40, 40, 40, 41, 41, 41, 41, 41, 41, 41,
     41, 41, 41, 41, 41, 41, 42, 42, 42, 42, 42, 42, 42, 42, 42, 42,
     42, 42, 42, 43, 43, 43, 43, 43, 43, 43, 43, 43, 43, 43, 43, 43,
     43, 43, 44, 44, 44, 44, 44, 44, 44, 44, 44, 44, 44, 44, 44, 44
   >>

\* Scale * exp(y/Scale) for y = ExpLo .. ExpLo + Len(ExpTable) - 1, rounded to
\* nearest; below that range the result rounds to 0, above it exceeds MaxV.
ExpLo == -55
ExpTable == <<
     1, 1, 1, 1, 1, 1, 1, 1, 1, 1, 1, 1, 1, 1, 1, 1,
     1, 1, 2, 2, 2, 2, 2, 2, 2, 2, 3, 3, 3, 3, 3, 4,
     4, 4, 4, 5, 5, 5, 6, 6, 6, 7, 7, 8, 8, 9, 9, 10,
     10, 11, 12, 12, 13, 14, 15, 16, 17, 18, 19, 21, 22, 23, 25, 26,
     28, 30, 32, 34, 36, 38, 41, 43, 46, 49, 52, 56, 59, 63, 67, 72,
     76, 81, 86, 92, 98, 104, 111, 118, 126, 134, 143, 152, 162, 172, 183, 195,
     207, 221, 235, 250
   >>

\* f64::ln
Ln(x) ==
    IF IsNaN(x) THEN NaN
    ELSE IF IsInf(x) THEN (IF x.v > 0 THEN PInf ELSE NaN)
    ELSE IF x.v < 0 THEN NaN
    ELSE IF x.v = 0 THEN NInf
    ELSE F(LnTable[x.v])

\* f64::exp
Exp(x) ==
    IF IsNaN(x) THEN NaN
    ELSE IF IsInf(x) THEN (IF x.v > 0 THEN PInf ELSE F(0))
    ELSE IF x.v < ExpLo THEN F(0)
    ELSE IF x.v >= ExpLo + Len(ExpTable) THEN PInf
    ELSE F(ExpTable[x.v - ExpLo + 1])

\* The exponents y of powf the model evaluates are the multiples of 1/2;
\* h is the exponent in halves.
Halves(y) == y.v \div (Scale \div 2)

\* v^(h/2) for a finite v > 0 (in steps) and h # 0, rounded to nearest.
PowPos(v, h) ==
    LET n == Abs(h)
        e == n \div 2
    IN  IF n % 2 = 0
        THEN (IF h > 0 THEN Fin(RoundDiv(IPow(v, e), IPow(Scale, e - 1)))
              ELSE Fin(RoundDiv(IPow(Scale, e + 1), IPow(v, e))))
        ELSE (IF h > 0
              THEN Fin(RoundSqrt(IPow(v, n) * IPow(Scale, 2), IPow(Scale, n)))
              ELSE Fin(RoundSqrt(IPow(Scale, n + 2), IPow(v, n))))

\* f64::powf, with the special cases of IEEE-754 pow.
Powf(x, y) ==
    IF IsZero(y) THEN F(Scale)
    ELSE IF x = F(Scale) THEN F(Scale)
    ELSE IF IsNaN(x) \/ IsNaN(y) THEN NaN
    ELSE IF IsInf(y)
         THEN (IF IsFin(x) /\ Abs(x.v) = Scale THEN F(Scale)
               ELSE IF (IsFin(x) /\ Abs(x.v) < Scale) = (y.v < 0) THEN PInf
               ELSE F(0))
    ELSE IF IsInf(x)
         THEN (IF y.v < 0 THEN F(0)
               ELSE IF x.v < 0 /\ y.v % (2 * Scale) = Scale THEN NInf
               ELSE PInf)
    ELSE IF x.v = 0 THEN (IF y.v < 0 THEN PInf ELSE F(0))
    ELSE IF x.v < 0
         THEN (IF y.v % Scale # 0 THEN NaN
               ELSE IF y.v % (2 * Scale) = Scale
                    THEN Neg(PowPos(-x.v, Halves(y)))
               ELSE PowPos(-x.v, Halves(y)))
    ELSE PowPos(x.v, Halves(y))

\* `x as usize`: truncation toward zero, saturating, NaN to 0.
AsUsize(x) ==
    IF IsNaN(x) THEN 0
    ELSE IF IsInf(x) THEN (IF x.v > 0 THEN UsizeMax ELSE 0)
    ELSE IF x.v < 0 THEN 0
    ELSE x.v \div Scale

\* `n as f64` for a usize n.
AsF64(n) == Fin(n * Scale)

\* ------------------------------------------------------------- ZipfError

InvalidPowerParameter(s) == [kind |-> "InvalidPowerParameter", s |-> s]
InvalidRangeStart(start) == [kind |-> "InvalidRangeStart", start |-> start]
InvalidRangeEnd(start, end) ==
    [kind |-> "InvalidRangeEnd", start |-> start, end |-> end]
EmptyArray == [kind |-> "EmptyArray"]

Ok(v) == [ok |-> TRUE, val |-> v]
Err(e) == [ok |-> FALSE, err |-> e]

\* ------------------------------------------------------- transform core

\* ZipfOne::new_unchecked(a..b)
ZipfOne_new_unchecked(a, b) ==
    [tag |-> "One", ln_b_div_a |-> Ln(Div(b, a)), ln_a |-> Ln(a)]

\* ZipfOne::sample(u)
ZipfOne_sample(self, u) == Exp(Add(self.ln_a, Mul(u, self.ln_b_div_a)))

\* ZipfNonOne::new_unchecked(a..b, s)
ZipfNonOne_new_unchecked(a, b, s) ==
    LET q == Sub(F(Scale), s)
        q_inv == Div(F(Scale), q)
        a_pow_q == Powf(a, q)
        b_pow_q == Powf(b, q)
    IN  [tag |-> "NonOne", q_inv |-> q_inv, a_pow_q |-> a_pow_q,
         b_pow_q_sub_a_pow_q |-> Sub(b_pow_q, a_pow_q)]

\* ZipfNonOne::sample(u)
ZipfNonOne_sample(self, u) ==
    Powf(MulAdd(u, self.b_pow_q_sub_a_pow_q, self.a_pow_q), self.q_inv)

\* ZipfImpl::new_unchecked(a..b, s)
ZipfImpl_new_unchecked(a, b, s) ==
    IF EqF(s, F(Scale)) THEN ZipfOne_new_unchecked(a, b)
    ELSE ZipfNonOne_new_unchecked(a, b, s)

\* ZipfImpl::sample(u)
ZipfImpl_sample(self, u) ==
    IF self.tag = "One" THEN ZipfOne_sample(self, u)
    ELSE ZipfNonOne_sample(self, u)

\* --------------------------------------------------- distribution handle

\* Zipf::new with the range start validated before the power.
Zipf_new_start_first(start, end, s) ==
    IF Le(start, F(0)) THEN Err(InvalidRangeStart(start))
    ELSE IF Le(s, F(0)) THEN Err(InvalidPowerParameter(s))
    ELSE IF Le(end, start) THEN Err(InvalidRangeEnd(start, end))
    ELSE Ok([start |-> start, end |-> end, s |-> s,
             implementation |-> ZipfImpl_new_unchecked(start, end, s)])

\* Zipf::new(start..end, s)
Zipf_new(start, end, s) ==
    IF Le(s, F(0)) THEN Err(InvalidPowerParameter(s))
    ELSE IF Le(start, F(0)) THEN Err(InvalidRangeStart(start))
    ELSE IF Le(end, start) THEN Err(InvalidRangeEnd(start, end))
    ELSE Ok([start |-> start, end |-> end, s |-> s,
             implementation |-> ZipfImpl_new_unchecked(start, end, s)])

\* Zipf::sample(u)
Zipf_sample(self, u) == ZipfImpl_sample(self.implementation, u)

Min(a, b) == IF a < b THEN a ELSE b

\* The loop of sample_batch stopping one pair early.
RECURSIVE BatchLoop_skip_last(_, _, _, _)
BatchLoop_skip_last(self, u_values, output, i) ==
    IF i >= Min(Len(u_values), Len(output)) THEN output
    ELSE BatchLoop_skip_last(self, u_values,
                   [output EXCEPT ![i] = ZipfImpl_sample(self.implementation,
                                                         u_values[i])],
                   i + 1)

\* The loop of Zipf::sample_batch over u_values.iter().zip(output.iter_mut()),
\* from pair i on.
RECURSIVE BatchLoop(_, _, _, _)
BatchLoop(self, u_values, output, i) ==
    IF i > Min(Len(u_values), Len(output)) THEN output
    ELSE BatchLoop(self, u_values,
                   [output EXCEPT ![i] = ZipfImpl_sample(self.implementation,
                                                         u_values[i])],
                   i + 1)

\* Zipf::sample_batch(u_values, output): the output slice afterwards, and
\* whether the length assertion panicked.
Zipf_sample_batch(self, u_values, output) ==
    IF Len(u_values) # Len(output)
    THEN [panic |-> TRUE, output |-> output]
    ELSE [panic |-> FALSE, output |-> BatchLoop(self, u_values, output, 1)]

\* ------------------------------------------------ uniform random source

\* iterator.rs: DEFAULT_SEED
DEFAULT_SEED == 666

\* StdRng is a keyed generator in counter mode: its state is the key derived
\* from the seed and the number of values drawn so far.
StdRng_seed_from_u64(seed) == [key |-> seed, ctr |-> 0]

\* The word the generator with this key produces at position ctr.
Prf(key, ctr) == ((key % 11) * (2 * ctr + 1) + 3 * ctr) % Scale

\* rng.gen::<f64>(): a uniform value in [0, 1) and the advanced source.
Gen(rng) ==
    [u |-> F(Prf(rng.key, rng.ctr)),
     rng |-> [key |-> rng.key, ctr |-> rng.ctr + 1]]

\* ------------------------------------------------------ sequence adapter

\* ZipfIterator::new(zipf)
ZipfIterator_new(zipf) ==
    [zipf |-> zipf, rng |-> StdRng_seed_from_u64(DEFAULT_SEED)]

\* ZipfIterator::with_rng(self, rng)
ZipfIterator_with_rng(self, rng) == [zipf |-> self.zipf, rng |-> rng]

\* ZipfIterator::with_seed(zipf, seed)
ZipfIterator_with_seed(zipf, seed) ==
    ZipfIterator_with_rng(ZipfIterator_new(zipf), StdRng_seed_from_u64(seed))

\* Zipf::iter()
Zipf_iter(self) == ZipfIterator_new(self)

Some(v) == [some |-> TRUE, v |-> v]
None == [some |-> FALSE]

\* next() drawing from one source shared by all adapters, whose position is
\* the number of values drawn so far by any of them.
ZipfIterator_next_shared(self) ==
    LET n == Len(outs[1]) + Len(outs[2])
        g == Gen([key |-> self.rng.key, ctr |-> n])
    IN  [self |-> [zipf |-> self.zipf,
                   rng |-> [key |-> self.rng.key, ctr |-> self.rng.ctr + 1]],
         item |-> Some(Zipf_sample(self.zipf, g.u))]

\* next() drawing two uniform values and sampling the second.
ZipfIterator_next_two_draws(self) ==
    LET g == Gen(Gen(self.rng).rng)
    IN  [self |-> [zipf |-> self.zipf, rng |-> g.rng],
         item |-> Some(Zipf_sample(self.zipf, g.u))]

\* <ZipfIterator as Iterator>::next(): the adapter afterwards and the item.
ZipfIterator_next(self) ==
    LET g == Gen(self.rng)
    IN  [self |-> [zipf |-> self.zipf, rng |-> g.rng],
         item |-> Some(Zipf_sample(self.zipf, g.u))]

\* ------------------------------------------------------ derived adapters

\* Zipf::indices_access(start..end, s): the base iterator under the map.
Zipf_indices_access(start, end, s) ==
    LET r == Zipf_new(AsF64(start), AsF64(end), s)
    IN  IF r.ok THEN Ok([kind |-> "indices", it |-> Zipf_iter(r.val)])
        ELSE Err(r.err)

\* The closure |x| x as usize of indices_access.
IndicesMap(x) == [panic |-> FALSE, item |-> Some(AsUsize(x))]

\* array_access building the handle before looking at the collection.
Zipf_array_access_new_first(offset, arr, s) ==
    LET a == AsF64(offset)
        b == Add(a, AsF64(Len(arr)))
        r == Zipf_new(a, b, s)
    IN  IF ~r.ok THEN Err(r.err)
        ELSE IF Len(arr) = 0 THEN Err(EmptyArray)
        ELSE Ok([kind |-> "array", it |-> Zipf_iter(r.val),
                 arr |-> arr, offset |-> offset])

\* Zipf::array_access(offset, arr, s): the base iterator and what the map
\* closure captured.
Zipf_array_access(offset, arr, s) ==
    IF Len(arr) = 0 THEN Err(EmptyArray)
    ELSE LET a == AsF64(offset)
             b == Add(a, AsF64(Len(arr)))
             r == Zipf_new(a, b, s)
         IN  IF r.ok
             THEN Ok([kind |-> "array", it |-> Zipf_iter(r.val),
                      arr |-> arr, offset |-> offset])
             ELSE Err(r.err)

\* The closure |x| arr[x as usize - offset] of array_access.  The
\* subtraction overflows when the cast is below offset: the debug build
\* panics there, the release build wraps to an index far beyond the
\* collection and panics in the bounds check, as does a position >= len.
ArrayMap(arr, offset, x) ==
    LET i == AsUsize(x)
    IN  IF i < offset \/ i - offset >= Len(arr)
        THEN [panic |-> TRUE, item |-> None]
        ELSE [panic |-> FALSE, item |-> Some(arr[i - offset + 1])]

\* ------------------------------------------------------------- the state

\* Most values one adapter is pulled for.
MaxDraws == 3
\* Longest slice handed to sample_batch.
MaxBatch == 2
\* Longest collection handed to array_access.
MaxArrLen == 3
\* Largest offset / index bound handed to the derived adapters.
MaxIdx == 4

\* The inputs of the constructor.  The powers are such that q = 1 - s and
\* 1/q are multiples of 1/2, the exponents Powf evaluates.
Starts == {NaN, F(-Scale), F(0), F(1), F(Scale), F(2 * Scale), F(3 * Scale), PInf}
Ends == Starts
Powers == {NaN, F(-Scale), F(0), F(Scale \div 2), F(Scale),
           F((3 * Scale) \div 2), F(2 * Scale), F(3 * Scale), PInf}
\* The inputs of the constructor where the handle only carries the adapters
\* or the batch: both regimes, and a power that is NaN.
HStarts == {F(0), F(Scale), F(2 * Scale)}
HEnds == {F(2 * Scale), F(3 * Scale)}
HPowers == {NaN, F(0), F(Scale), F(2 * Scale)}
\* The powers handed to the derived adapters.
AccessPowers == {NaN, F(-Scale), F(0), F(Scale \div 2), F(Scale),
                 F(2 * Scale), PInf}
\* The uniform values of [0, 1).
UGrid == {F(n) : n \in 0..(Scale - 1)}
\* The uniform values the batches are made of.
BatchUs == {F(0), F(Scale \div 2), F(Scale - 1)}
Seeds == {DEFAULT_SEED, 42, 123}

SeqsUpTo(S, n) == UNION {[1..m -> S] : m \in 0..n}
\* The collection of n elements 101, 102, ...
ArrOf(n) == [i \in 1..n |-> 100 + i]


Init ==
    /\ call = [op |-> "none"]
    /\ ret = [op |-> "none"]
    /\ handle = None
    /\ batch_u = <<>>
    /\ batch_out = <<>>
    /\ panicked = FALSE
    /\ iters = [i \in Adapters |-> None]
    /\ outs = [i \in Adapters |-> <<>>]
    /\ origin = [i \in Adapters |-> None]
    /\ acc = None

\* let handle = Zipf::new(start..end, s)?
New(start, end, s) ==
    /\ ~panicked
    /\ ~handle.some
    /\ call' = [op |-> "new", start |-> start, end |-> end, s |-> s]
    /\ ret' = Zipf_new(start, end, s)
    /\ handle' = IF ret'.ok THEN Some(ret'.val) ELSE handle
    /\ UNCHANGED <<batch_u, batch_out, panicked, iters, outs, origin, acc>>

\* handle.sample(u)
Sample(u) ==
    /\ ~panicked
    /\ handle.some
    /\ call' = [op |-> "sample", u |-> u]
    /\ ret' = Zipf_sample(handle.v, u)
    /\ UNCHANGED <<handle, batch_u, batch_out, panicked, iters, outs, origin, acc>>

\* handle.sample_batch(&us, &mut out)
SampleBatch(us, out) ==
    /\ ~panicked
    /\ handle.some
    /\ LET r == Zipf_sample_batch(handle.v, us, out)
       IN  /\ batch_out' = r.output
           /\ panicked' = r.panic
    /\ batch_u' = us
    /\ call' = [op |-> "sample_batch", u_values |-> us, output |-> out]
    /\ ret' = [op |-> "unit"]
    /\ UNCHANGED <<handle, iters, outs, origin, acc>>

\* iters[i] = handle.iter()
Iter(i) ==
    /\ ~panicked
    /\ handle.some
    /\ LET it == Zipf_iter(handle.v)
       IN  /\ iters' = [iters EXCEPT ![i] = Some(it)]
           /\ origin' = [origin EXCEPT ![i] = Some(it.rng)]
    /\ outs' = [outs EXCEPT ![i] = <<>>]
    /\ call' = [op |-> "iter", i |-> i]
    /\ ret' = [op |-> "unit"]
    /\ UNCHANGED <<handle, batch_u, batch_out, panicked, acc>>

\* iters[i] = ZipfIterator::with_seed(handle, seed)
WithSeed(i, seed) ==
    /\ ~panicked
    /\ handle.some
    /\ LET it == ZipfIterator_with_seed(handle.v, seed)
       IN  /\ iters' = [iters EXCEPT ![i] = Some(it)]
           /\ origin' = [origin EXCEPT ![i] = Some(it.rng)]
    /\ outs' = [outs EXCEPT ![i] = <<>>]
    /\ call' = [op |-> "with_seed", i |-> i]
    /\ ret' = [op |-> "unit"]
    /\ UNCHANGED <<handle, batch_u, batch_out, panicked, acc>>

\* iters[i] = handle.iter().with_rng(StdRng::seed_from_u64(seed))
WithRng(i, seed) ==
    /\ ~panicked
    /\ handle.some
    /\ LET it == ZipfIterator_with_rng(Zipf_iter(handle.v),
                                       StdRng_seed_from_u64(seed))
       IN  /\ iters' = [iters EXCEPT ![i] = Some(it)]
           /\ origin' = [origin EXCEPT ![i] = Some(it.rng)]
    /\ outs' = [outs EXCEPT ![i] = <<>>]
    /\ call' = [op |-> "with_rng", i |-> i]
    /\ ret' = [op |-> "unit"]
    /\ UNCHANGED <<handle, batch_u, batch_out, panicked, acc>>

\* iters[j] = iters[i].clone()
CloneIter(i, j) ==
    /\ ~panicked
    /\ i # j
    /\ iters[i].some
    /\ iters' = [iters EXCEPT ![j] = iters[i]]
    /\ origin' = [origin EXCEPT ![j] = Some(iters[i].v.rng)]
    /\ outs' = [outs EXCEPT ![j] = <<>>]
    /\ call' = [op |-> "clone", i |-> j]
    /\ ret' = [op |-> "unit"]
    /\ UNCHANGED <<handle, batch_u, batch_out, panicked, acc>>

\* iters[i].next() where the adapters alias one source: the pull advances
\* the source of the other adapter as well.
IterNext_aliased(i) ==
    /\ ~panicked
    /\ iters[i].some
    /\ iters[i].v.rng.ctr < MaxDraws
    /\ LET r == ZipfIterator_next(iters[i].v)
       IN  /\ iters' = [j \in Adapters |->
                          IF j = i THEN Some(r.self)
                          ELSE IF iters[j].some
                               THEN Some([iters[j].v EXCEPT
                                            !.rng = Gen(iters[j].v.rng).rng])
                               ELSE iters[j]]
           /\ ret' = r.item
           /\ outs' = [outs EXCEPT ![i] =
                          IF r.item.some THEN Append(@, r.item.v) ELSE @]
    /\ call' = [op |-> "next", i |-> i]
    /\ UNCHANGED <<handle, batch_u, batch_out, panicked, origin, acc>>

\* iters[i].next()
IterNext(i) ==
    /\ ~panicked
    /\ iters[i].some
    /\ iters[i].v.rng.ctr < MaxDraws
    /\ LET r == ZipfIterator_next(iters[i].v)
       IN  /\ iters' = [iters EXCEPT ![i] = Some(r.self)]
           /\ ret' = r.item
           /\ outs' = [outs EXCEPT ![i] =
                          IF r.item.some THEN Append(@, r.item.v) ELSE @]
    /\ call' = [op |-> "next", i |-> i]
    /\ UNCHANGED <<handle, batch_u, batch_out, panicked, origin, acc>>

\* let acc = Zipf::indices_access(start..end, s)?
IndicesAccess(start, end, s) ==
    /\ ~panicked
    /\ ~acc.some
    /\ call' = [op |-> "indices_access", start |-> start, end |-> end, s |-> s]
    /\ ret' = Zipf_indices_access(start, end, s)
    /\ acc' = IF ret'.ok THEN Some(ret'.val) ELSE acc
    /\ UNCHANGED <<handle, batch_u, batch_out, panicked, iters, outs, origin>>

\* let acc = Zipf::array_access(offset, arr, s)?
ArrayAccess(offset, arr, s) ==
    /\ ~panicked
    /\ ~acc.some
    /\ call' = [op |-> "array_access", offset |-> offset, arr |-> arr, s |-> s]
    /\ ret' = Zipf_array_access(offset, arr, s)
    /\ acc' = IF ret'.ok THEN Some(ret'.val) ELSE acc
    /\ UNCHANGED <<handle, batch_u, batch_out, panicked, iters, outs, origin>>

\* acc.next(): Map::next pulls the base iterator and applies the closure.
AccessNext ==
    /\ ~panicked
    /\ acc.some
    /\ acc.v.it.rng.ctr < MaxDraws
    /\ LET r == ZipfIterator_next(acc.v.it)
           m == IF ~r.item.some THEN [panic |-> FALSE, item |-> None]
                ELSE IF acc.v.kind = "indices" THEN IndicesMap(r.item.v)
                ELSE ArrayMap(acc.v.arr, acc.v.offset, r.item.v)
       IN  /\ acc' = Some([acc.v EXCEPT !.it = r.self])
           /\ ret' = m.item
           /\ panicked' = m.panic
    /\ call' = [op |-> "access_next"]
    /\ UNCHANGED <<handle, batch_u, batch_out, iters, outs, origin>>

\* The handle and its transform.
NextZipf ==
    \/ \E start \in Starts, end \in Ends, s \in Powers : New(start, end, s)
    \/ \E u \in UGrid : Sample(u)

\* Batches over one handle.
NextBatch ==
    \/ \E start \in HStarts, end \in HEnds, s \in HPowers : New(start, end, s)
    \/ \E us \in SeqsUpTo(BatchUs, MaxBatch), n \in 0..MaxBatch :
          SampleBatch(us, [i \in 1..n |-> F(0)])

\* The sequence adapters over one handle.
NextIter ==
    \/ \E start \in HStarts, end \in HEnds, s \in HPowers : New(start, end, s)
    \/ \E i \in Adapters : Iter(i)
    \/ \E i \in Adapters, seed \in Seeds : WithSeed(i, seed)
    \/ \E i \in Adapters, seed \in Seeds : WithRng(i, seed)
    \/ \E i \in Adapters, j \in Adapters : CloneIter(i, j)
    \/ \E i \in Adapters : IterNext(i)

\* The derived adapters.
NextAccess ==
    \/ \E start \in 0..MaxIdx, end \in 0..MaxIdx, s \in AccessPowers :
          IndicesAccess(start, end, s)
    \/ \E offset \in 0..MaxIdx, n \in 0..MaxArrLen, s \in AccessPowers :
          ArrayAccess(offset, ArrOf(n), s)
    \/ AccessNext

Next == NextZipf \/ NextBatch \/ NextIter \/ NextAccess

SpecZipf == Init /\ [][NextZipf]_vars
SpecBatch == Init /\ [][NextBatch]_vars
SpecIter == Init /\ [][NextIter]_vars
SpecAccess == Init /\ [][NextAccess]_vars
Spec == Init /\ [][Next]_vars

\* ------------------------------------------------------------ the claims

\* The kind of a constructor's result: "Ok" or the error's kind.
KindOf(r) == IF r.ok THEN "Ok" ELSE r.err.kind

\* s > 0, start > 0 and end > start, as f64 comparisons.
ValidParams(start, end, s) ==
    Gt(s, F(0)) /\ Gt(start, F(0)) /\ Gt(end, start)

\* C1 as stated: Zipf::new fails with InvalidPowerParameter for every
\* s <= 0, with InvalidRangeStart for every start <= 0, with InvalidRangeEnd
\* for every end <= start, and succeeds when start > 0, end > start, s > 0.
C1_AsStated ==
    call.op = "new" =>
        /\ Le(call.s, F(0)) => KindOf(ret) = "InvalidPowerParameter"
        /\ Le(call.start, F(0)) => KindOf(ret) = "InvalidRangeStart"
        /\ Le(call.end, call.start) => KindOf(ret) = "InvalidRangeEnd"
        /\ ValidParams(call.start, call.end, call.s) => ret.ok

\* C1 amended: Zipf::new fails with InvalidPowerParameter(s) for every
\* s <= 0; with InvalidRangeStart(start) for every start <= 0 unless s <= 0;
\* with InvalidRangeEnd{start, end} for every end <= start unless s <= 0 or
\* start <= 0; and succeeds when start > 0, end > start and s > 0.
C1_ValidationOrder ==
    call.op = "new" =>
        /\ Le(call.s, F(0)) => ret = Err(InvalidPowerParameter(call.s))
        /\ ~Le(call.s, F(0)) /\ Le(call.start, F(0))
              => ret = Err(InvalidRangeStart(call.start))
        /\ ~Le(call.s, F(0)) /\ ~Le(call.start, F(0))
              /\ Le(call.end, call.start)
              => ret = Err(InvalidRangeEnd(call.start, call.end))
        /\ ValidParams(call.start, call.end, call.s) => ret.ok

\* C1 witness: a call whose power and range start are both invalid was
\* answered with the power error.
C1_Witness ==
    /\ call.op = "new"
    /\ Le(call.s, F(0)) /\ Le(call.start, F(0)) /\ Le(call.end, call.start)
    /\ ret = Err(InvalidPowerParameter(call.s))

\* C2 as stated: every handle Zipf::new returns as Ok has start > 0,
\* end > start and s > 0, whatever the inputs (NaN included), and no later
\* operation changes a handle that is held.
C2_AsStated ==
    [][/\ handle'.some =>
            ValidParams(handle'.v.start, handle'.v.end, handle'.v.s)
       /\ handle.some => handle' = handle]_vars

\* C3: after sample_batch(u_values, output) on slices of the same length,
\* output[i] = sample(u_values[i]) for every i, in input order; u_values
\* and the handle are unchanged.
C3_BatchIsElementwise ==
    [][call'.op = "sample_batch"
          /\ Len(call'.u_values) = Len(call'.output)
       => /\ ~panicked'
          /\ batch_out' = [i \in 1..Len(call'.u_values) |->
                              Zipf_sample(handle.v, call'.u_values[i])]
          /\ batch_u' = call'.u_values
          /\ handle' = handle]_vars

\* C3 witness: a batch of at least two values produced two different
\* samples.
C3_Witness ==
    /\ call.op = "sample_batch"
    /\ ~panicked
    /\ Len(batch_out) >= 2
    /\ batch_out[1] # batch_out[2]
    /\ batch_out[1] # F(0)

\* C4: two adapters constructed with the same handle and the same source
\* state yield the same k-th value for every k both have been pulled for.
C4_Determinism ==
    \A i \in Adapters, j \in Adapters :
        /\ iters[i].some /\ iters[j].some
        /\ iters[i].v.zipf = iters[j].v.zipf
        /\ origin[i] = origin[j]
        => \A k \in 1..Min(Len(outs[i]), Len(outs[j])) :
              outs[i][k] = outs[j][k]

\* C4 witness: two adapters of the same origin have both been pulled twice
\* or more, and the sequence is not constant.
C4_Witness ==
    /\ iters[1].some /\ iters[2].some
    /\ origin[1] = origin[2]
    /\ Len(outs[1]) >= 2 /\ Len(outs[2]) >= 2
    /\ outs[1][1] # outs[1][2]

\* C5 as stated: every next() of an array_access iterator returns an
\* element of the collection and never panics.
C5_AsStated ==
    acc.some /\ acc.v.kind = "array" =>
        /\ ~panicked
        /\ call.op = "access_next" =>
              /\ ret.some
              /\ \E p \in 1..Len(acc.v.arr) : ret.v = acc.v.arr[p]

\* C6 as stated: every index an indices_access iterator yields lies in
\* [rangeStart, rangeEnd).
C6_AsStated ==
    acc.some /\ acc.v.kind = "indices" /\ call.op = "access_next" =>
        /\ ret.some
        /\ Le(acc.v.it.zipf.start, AsF64(ret.v))
        /\ Lt(AsF64(ret.v), acc.v.it.zipf.end)

\* C7: array_access over an empty collection fails with EmptyArray for
\* every offset and every s, and no adapter is built.
C7_EmptyArrayFirst ==
    call.op = "array_access" /\ Len(call.arr) = 0 =>
        ret = Err(EmptyArray) /\ ~acc.some

\* C7 witness: array_access was called with an empty collection, offset 0
\* and a power that is not positive.
C7_Witness ==
    /\ call.op = "array_access"
    /\ Len(call.arr) = 0
    /\ call.offset = 0
    /\ Le(call.s, F(0))
    /\ ret = Err(EmptyArray)

\* C8: every next() on an adapter returns Some, draws exactly one uniform
\* value u from the adapter's source, advances the source by that draw,
\* and returns sample(u) of the adapter's handle.
C8_NextDrawsOne ==
    [][\A i \in Adapters :
          call'.op = "next" /\ call'.i = i =>
              LET g == Gen(iters[i].v.rng)
              IN  /\ ret'.some
                  /\ ret'.v = Zipf_sample(iters[i].v.zipf, g.u)
                  /\ iters'[i].v.rng = g.rng
                  /\ iters'[i].v.rng.ctr = iters[i].v.rng.ctr + 1
                  /\ iters'[i].v.zipf = iters[i].v.zipf
                  /\ outs'[i] = Append(outs[i], ret'.v)]_vars

\* C8 witness: a next() after two earlier pulls of the same adapter
\* returned a value.
C8_Witness ==
    /\ call.op = "next"
    /\ ret.some
    /\ Len(outs[call.i]) >= 3

\* C9 as stated: for every constructed handle, sample(u1) <= sample(u2) for
\* all u1 <= u2 in [0, 1).
C9_AsStated ==
    handle.some =>
        \A u1 \in UGrid, u2 \in UGrid :
            Le(u1, u2) => Le(Zipf_sample(handle.v, u1), Zipf_sample(handle.v, u2))

\* The first n values of an adapter pulled alone.
RECURSIVE PulledAlone(_, _)
PulledAlone(it, n) ==
    IF n = 0 THEN <<>>
    ELSE LET r == ZipfIterator_next(it)
         IN  <<r.item.v>> \o PulledAlone(r.self, n - 1)

\* C10: under every interleaving of next() calls each adapter yields the
\* sequence it would yield if pulled alone, and a next() on one adapter
\* leaves the other adapter and the handle unchanged.
C10_Independence ==
    /\ [](\A i \in Adapters :
             iters[i].some =>
                 outs[i] = PulledAlone([zipf |-> iters[i].v.zipf,
                                        rng |-> origin[i].v],
                                       Len(outs[i])))
    /\ [][\A i \in Adapters :
             call'.op = "next" /\ call'.i = i =>
                 /\ \A j \in Adapters \ {i} :
                       iters'[j] = iters[j] /\ outs'[j] = outs[j]
                 /\ origin' = origin
                 /\ handle' = handle]_vars

\* C10 witness: two adapters of different origin have both been pulled and
\* have yielded different sequences.
C10_Witness ==
    /\ iters[1].some /\ iters[2].some
    /\ origin[1] # origin[2]
    /\ Len(outs[1]) >= 2 /\ Len(outs[2]) >= 2
    /\ outs[1] # outs[2]

=============================================================================
